---- MODULE Spec2Model ----
(***************************************************************************)
(* Verification model of the NIC initialization crate of Theseus           *)
(* (kernel/nic_initialization): the receive buffer pool pre-fill, the      *)
(* receive ring initializer and the transmit ring initializer, run by a    *)
(* normal-context driver while an interrupt-context reclaimer acquires and *)
(* releases buffers of the same pools.                                     *)
(***************************************************************************)
EXTENDS Integers, Sequences, FiniteSets, TLC

(***************************************************************************)
(* Bounds of the exploration.                                              *)
(***************************************************************************)
\* capacity each mpmc::Queue is constructed with (chosen by the driver)
PoolCap == 2
\* largest num_desc passed to init_rx_queue / init_tx_queue
MaxDesc == 2
\* largest num_rx_buffers passed to init_rx_buf_pool
MaxFill == 2
\* number of buffer regions the memory collaborator can hand out
MaxBufs == 3

Pools == {"A", "B"}

(***************************************************************************)
(* Machine integers.  A usize / u64 is four 16-bit limbs, least            *)
(* significant first; a u32 is two limbs.                                  *)
(***************************************************************************)
Limb == 2 ^ 16

\* `x as u16` on a usize that fits one machine word of the model
AsU16(x) == x % Limb

\* `x as u32` on a 64-bit value: the low two limbs
AsU32(x) == <<x[1], x[2]>>

\* `x >> 32` on a 64-bit value
Shr32(x) == <<x[3], x[4], 0, 0>>

\* the u32 literal 0
Zero32 == <<0, 0>>

\* num_desc * size_of::<T>() as the (wrapping) usize multiplication
MulUsize(n, x) ==
    LET c1 == n * x[1]
        c2 == n * x[2] + (c1 \div Limb)
        c3 == n * x[3] + (c2 \div Limb)
        c4 == n * x[4] + (c3 \div Limb)
    IN  <<c1 % Limb, c2 % Limb, c3 % Limb, c4 % Limb>>

(***************************************************************************)
(* Inputs the driver may pass.                                             *)
(***************************************************************************)
\* buffer_size of init_rx_buf_pool (a u16)
FillSizes == {2048}
\* buffer_size of init_rx_queue (a usize): the usual 2 KiB, and sizes at and
\* above 2^16
RxSizes == {2048}
RxSizesWide == {2048, 65536, 67584}
\* size_of::<T>() of the descriptor type: a 16-byte legacy descriptor, and a
\* record of 2^31 bytes
DescSizes == {<<16, 0, 0, 0>>}
DescSizesWide == {<<16, 0, 0, 0>>, <<0, 32768, 0, 0>>}
\* page-aligned physical addresses the collaborator may return for a
\* descriptor array: 0x1000, 0x3_8000_2000, 0xF_FFFF_FFFF_F000
DescAddrs == {<<8192, 32768, 3, 0>>}
DescAddrsWide == {<<4096, 0, 0, 0>>, <<8192, 32768, 3, 0>>, <<61440, 65535, 65535, 15>>}

\* physical address of the k-th buffer region handed out (page aligned,
\* regions disjoint)
BufAddr(k) == k * (2 * Limb)

NoBuf == [paddr |-> 0, length |-> 0, size |-> 0, pool |-> "none"]

VARIABLES
    pool,     \* pool[p]: the idle buffers of queue p, oldest first
    held,     \* buffers checked out and owned by the driver
    freed,    \* buffers whose drop could not return them to their pool
    nalloc,   \* number of buffer regions mapped so far
    nc,       \* the normal-context call in progress
    regLog,   \* the register setters called by the call in progress, in order
    irq       \* the interrupt-context pool operation in progress

vars == <<pool, held, freed, nalloc, nc, regLog, irq>>

(***************************************************************************)
(* The buffer pool: mpmc::Queue<ReceiveBuffer>, a bounded FIFO whose push  *)
(* fails on a full queue and hands the value back, and whose pop returns   *)
(* None on an empty queue.                                                 *)
(***************************************************************************)
Push(q, b) ==
    IF Len(q) < PoolCap
    THEN [ok |-> TRUE, q |-> Append(q, b), ret |-> NoBuf]
    ELSE [ok |-> FALSE, q |-> q, ret |-> b]

Pop(q) ==
    IF q = <<>>
    THEN [some |-> FALSE, q |-> q, val |-> NoBuf]
    ELSE [some |-> TRUE, q |-> Tail(q), val |-> Head(q)]

\* ReceiveBuffer::new(mp, phys_addr, length, pool)
NewReceiveBuffer(paddr, regionSize, length, p) ==
    [paddr |-> paddr, length |-> length, size |-> regionSize, pool |-> p]

\* a queue behind a blocking lock that the normal context holds from a pool
\* call of init_rx_buf_pool or init_rx_queue until the buffer is stored
PoolAvailableLocked(p) ==
    ~(nc.p = p /\ nc.pc \in {"fill_push", "fill_drop", "rx_pop", "rx_alloc", "rx_attach"})

\* whether a queue operation of another context can proceed on pool p: the
\* queue takes no lock, so it never waits for the context it preempted
PoolAvailable(p) == TRUE

\* the error values of the collaborators that map memory
MapErrors == {"out of memory", "mapping failed"}

\* the error value of a failed into_borrowed_slice_mut
CastError == "region too small for the slice"

\* the messages of lines 35 and 68
PoolFullMsg == "nic rx buffer pool is full"
PoolEmptyMsg == "Couldn't obtain a ReceiveBuffer from the pool"

(***************************************************************************)
(* The normal context.                                                     *)
(***************************************************************************)
Idle ==
    [pc |-> "idle", op |-> "none", p |-> "none", n |-> 0, size |-> 0,
     r |-> <<0, 0, 0, 0>>, i |-> 0, base |-> <<0, 0, 0, 0>>, descs |-> <<>>,
     bufs |-> <<>>, cur |-> NoBuf, nalloc0 |-> 0, pool0 |-> <<>>,
     touched |-> FALSE, res |-> "none", mp |-> "none", err |-> "none",
     cause |-> "none"]

NoIrq == [pc |-> "idle", op |-> "none", p |-> "none", buf |-> NoBuf, ok |-> FALSE,
          ret |-> NoBuf]

(***************************************************************************)
(* The other crates of the kernel modelled here have their own state:      *)
(* kernel/preemption (the per-CPU preemption counter and its guards) and   *)
(* kernel/serial_port_basic (the serial port singletons).                  *)
(***************************************************************************)
CPUs == {0, 1}
Archs == {"x86_64", "aarch64"}
\* an AtomicU8 holds 0..255
U8 == 256

VARIABLES
    arch,     \* target_arch of the build
    count,    \* count[c]: PREEMPTION_COUNT of CPU c
    guards,   \* guards[c][w]: live PreemptionGuards with cpu_id = c and
              \* preemption_was_enabled = w
    timer,    \* timer[c]: the LVT timer of CPU c is enabled
    cpu       \* cpu[c]: the hold_preemption / drop in progress on CPU c

pvars == <<arch, count, guards, timer, cpu>>

NoGuard == [cpu |-> 0, was |-> FALSE]
CpuRun == [pc |-> "run", prev |-> 0, g |-> NoGuard]

\* no guard exists, every counter is 0 (preemption_count, lines 21-28) and
\* every timer is enabled
PreemptInit ==
    /\ count = [c \in CPUs |-> 0]
    /\ guards = [c \in CPUs |-> [w \in BOOLEAN |-> 0]]
    /\ timer = [c \in CPUs |-> TRUE]
    /\ cpu = [c \in CPUs |-> CpuRun]

\* the serial ports used and the concurrent callers of the crate
Addrs == {"COM1", "COM2"}
Callers == {1, 2}

VARIABLES
    port,     \* port[a]: the TriState of the static COMx_SERIAL_PORT
    lock,     \* lock[a]: the caller holding the MutexIrqSafe of a, or 0
    inits,    \* inits[a]: how many times SerialPort::new ran for a
    handles,  \* handles[t][a]: the live SerialPorts of address a caller t owns
    sc        \* sc[t]: the take_serial_port / drop in progress of caller t

svars == <<port, lock, inits, handles, sc>>

ScIdle == [pc |-> "idle", a |-> "none", saw |-> FALSE, got |-> "none"]

\* lines 88-91: every static port starts Uninited and unlocked
SerialInit ==
    /\ port = [a \in Addrs |-> "Uninited"]
    /\ lock = [a \in Addrs |-> 0]
    /\ inits = [a \in Addrs |-> 0]
    /\ handles = [t \in Callers |-> [a \in Addrs |-> 0]]
    /\ sc = [t \in Callers |-> ScIdle]

allvars == <<vars, pvars, svars>>

Init ==
    /\ pool = [p \in Pools |-> <<>>]
    /\ held = {}
    /\ freed = {}
    /\ nalloc = 0
    /\ nc = Idle
    /\ regLog = <<>>
    /\ irq = NoIrq
    /\ arch = "x86_64"
    /\ PreemptInit
    /\ SerialInit

\* the normal context runs only while no interrupt handler is running
Running == irq.pc = "idle"

(***************************************************************************)
(* init_rx_buf_pool                                                        *)
(***************************************************************************)
\* the call: init_rx_buf_pool(num, size, p), entering the loop of line 30
FillCall(num, size, p) ==
    /\ Running
    /\ nc.pc = "idle"
    /\ nc' = [Idle EXCEPT !.pc = IF num = 0 THEN "done" ELSE "fill_alloc",
                          !.op = "fill", !.p = p, !.n = num, !.size = size,
                          !.pool0 = pool[p], !.nalloc0 = nalloc,
                          !.res = IF num = 0 THEN "ok" ELSE "none"]
    /\ regLog' = <<>>
    /\ UNCHANGED <<pool, held, freed, nalloc, irq>>

\* lines 31-32: map a region and wrap it, or propagate the mapping error
FillAlloc ==
    /\ Running
    /\ nc.pc = "fill_alloc"
    /\ \/ /\ nalloc < MaxBufs
          /\ nalloc' = nalloc + 1
          /\ nc' = [nc EXCEPT !.pc = "fill_push",
                              !.cur = NewReceiveBuffer(BufAddr(nalloc + 1), nc.size, nc.size, nc.p)]
       \/ /\ (\E e \in MapErrors : nc' = [nc EXCEPT !.pc = "done", !.res = "err_alloc",
                                                     !.err = e, !.cause = e])
          /\ UNCHANGED nalloc
    /\ UNCHANGED <<pool, held, freed, regLog, irq>>

\* FillPush with a pool that grows instead of refusing the push
FillPushGrow ==
    /\ Running
    /\ nc.pc = "fill_push"
    /\ pool' = [pool EXCEPT ![nc.p] = Append(@, nc.cur)]
    /\ nc' = [nc EXCEPT !.cur = NoBuf, !.i = @ + 1,
                        !.pc = IF nc.i + 1 = nc.n THEN "done" ELSE "fill_alloc",
                        !.res = IF nc.i + 1 = nc.n THEN "ok" ELSE "none"]
    /\ UNCHANGED <<held, freed, nalloc, regLog, irq>>

\* FillPush that takes the successful push for the failure (is_ok for is_err)
FillPushInverted ==
    /\ Running
    /\ nc.pc = "fill_push"
    /\ LET r == Push(pool[nc.p], nc.cur) IN
        /\ pool' = [pool EXCEPT ![nc.p] = r.q]
        /\ nc' = IF ~r.ok
                 THEN [nc EXCEPT !.cur = NoBuf, !.i = @ + 1,
                                 !.pc = IF nc.i + 1 = nc.n THEN "done" ELSE "fill_alloc",
                                 !.res = IF nc.i + 1 = nc.n THEN "ok" ELSE "none"]
                 ELSE [nc EXCEPT !.pc = "fill_drop"]
    /\ UNCHANGED <<held, freed, nalloc, regLog, irq>>

\* FillPush whose loop stops one iteration early (0..num_rx_buffers - 1)
FillPushShortLoop ==
    /\ Running
    /\ nc.pc = "fill_push"
    /\ LET r == Push(pool[nc.p], nc.cur) IN
        /\ pool' = [pool EXCEPT ![nc.p] = r.q]
        /\ nc' = IF r.ok
                 THEN [nc EXCEPT !.cur = NoBuf, !.i = @ + 1,
                                 !.pc = IF nc.i + 2 >= nc.n THEN "done" ELSE "fill_alloc",
                                 !.res = IF nc.i + 2 >= nc.n THEN "ok" ELSE "none"]
                 ELSE [nc EXCEPT !.pc = "fill_drop"]
    /\ UNCHANGED <<held, freed, nalloc, regLog, irq>>

\* FillPush that pushes the buffer a second time when there is room
FillPushTwice ==
    /\ Running
    /\ nc.pc = "fill_push"
    /\ LET r == Push(pool[nc.p], nc.cur)
           r2 == Push(r.q, nc.cur) IN
        /\ pool' = [pool EXCEPT ![nc.p] = r2.q]
        /\ nc' = IF r.ok
                 THEN [nc EXCEPT !.cur = NoBuf, !.i = @ + 1,
                                 !.pc = IF nc.i + 1 = nc.n THEN "done" ELSE "fill_alloc",
                                 !.res = IF nc.i + 1 = nc.n THEN "ok" ELSE "none"]
                 ELSE [nc EXCEPT !.pc = "fill_drop"]
    /\ UNCHANGED <<held, freed, nalloc, regLog, irq>>

\* line 33: push the buffer; a full queue hands it back
FillPush ==
    /\ Running
    /\ nc.pc = "fill_push"
    /\ LET r == Push(pool[nc.p], nc.cur) IN
        /\ pool' = [pool EXCEPT ![nc.p] = r.q]
        /\ nc' = IF r.ok
                 THEN [nc EXCEPT !.cur = NoBuf, !.i = @ + 1,
                                 !.pc = IF nc.i + 1 = nc.n THEN "done" ELSE "fill_alloc",
                                 !.res = IF nc.i + 1 = nc.n THEN "ok" ELSE "none"]
                 ELSE [nc EXCEPT !.pc = "fill_drop"]
    /\ UNCHANGED <<held, freed, nalloc, regLog, irq>>

\* dropping a ReceiveBuffer returns it to the pool it is bound to; when that
\* push fails too the buffer is gone
DropBuffer(b, pl, fr) ==
    LET r == Push(pl[b.pool], b) IN
    IF r.ok THEN [pool |-> [pl EXCEPT ![b.pool] = r.q], freed |-> fr]
            ELSE [pool |-> pl, freed |-> fr \cup {b}]

\* FillDrop that swallows the failed push and goes on with the next buffer
FillDropContinue ==
    /\ Running
    /\ nc.pc = "fill_drop"
    /\ LET d == DropBuffer(nc.cur, pool, freed) IN
        /\ pool' = d.pool
        /\ freed' = d.freed
    /\ nc' = [nc EXCEPT !.cur = NoBuf, !.i = @ + 1,
                        !.pc = IF nc.i + 1 = nc.n THEN "done" ELSE "fill_alloc",
                        !.res = IF nc.i + 1 = nc.n THEN "ok" ELSE "none"]
    /\ UNCHANGED <<held, nalloc, regLog, irq>>

\* lines 33-36: the Err(rx_buf) of the failed push is dropped, then the
\* pool-full error is returned
FillDrop ==
    /\ Running
    /\ nc.pc = "fill_drop"
    /\ LET d == DropBuffer(nc.cur, pool, freed) IN
        /\ pool' = d.pool
        /\ freed' = d.freed
    /\ nc' = [nc EXCEPT !.pc = "done", !.res = "err_full", !.err = PoolFullMsg,
                        !.cur = NoBuf]
    /\ UNCHANGED <<held, nalloc, regLog, irq>>

(***************************************************************************)
(* init_rx_queue                                                           *)
(***************************************************************************)
\* a descriptor record before and after its init
UninitDesc == [init |-> FALSE, addr |-> 0]

\* rd.init(paddr): the descriptor records the buffer's physical address
RxDescInit(paddr) == [init |-> TRUE, addr |-> paddr]

\* td.init(): the idle state, no buffer address
TxDescInit == [init |-> TRUE, addr |-> 0]

\* the call: init_rx_queue::<T, S>(n, p, size, regs) with size_of::<T>() = r
RxCall(n, p, size, r) ==
    /\ Running
    /\ nc.pc = "idle"
    /\ nc' = [Idle EXCEPT !.pc = "rx_map", !.op = "rx", !.p = p, !.n = n,
                          !.size = size, !.r = r, !.pool0 = pool[p],
                          !.nalloc0 = nalloc]
    /\ regLog' = <<>>
    /\ UNCHANGED <<pool, held, freed, nalloc, irq>>

\* RxMap that programs the base address registers as soon as the array is
\* mapped
RxMapEarlyRegs(addrs) ==
    /\ Running
    /\ nc.pc = "rx_map"
    /\ \/ \E P \in addrs :
            /\ nc' = [nc EXCEPT !.mp = "held", !.base = P,
                                !.descs = [k \in 1..nc.n |-> UninitDesc],
                                !.pc = IF nc.n = 0 THEN "rx_regs" ELSE "rx_pop"]
            /\ regLog' = << <<"rdbal", AsU32(P)>>, <<"rdbah", AsU32(Shr32(P))>> >>
       \/ /\ (\E e \in MapErrors : nc' = [nc EXCEPT !.pc = "done", !.res = "err_map",
                                                  !.err = e, !.cause = e])
          /\ UNCHANGED regLog
       \/ /\ nc' = [nc EXCEPT !.pc = "done", !.res = "err_cast", !.mp = "dropped",
                             !.err = CastError, !.cause = CastError]
          /\ UNCHANGED regLog
    /\ UNCHANGED <<pool, held, freed, nalloc, irq>>

\* RxMap that enters the slot loop before testing the count (a do-while loop)
RxMapDoWhile(addrs) ==
    /\ Running
    /\ nc.pc = "rx_map"
    /\ \/ \E P \in addrs :
            nc' = [nc EXCEPT !.mp = "held", !.base = P,
                             !.descs = [k \in 1..nc.n |-> UninitDesc],
                             !.pc = "rx_pop"]
       \/ (\E e \in MapErrors : nc' = [nc EXCEPT !.pc = "done", !.res = "err_map",
                                                  !.err = e, !.cause = e])
       \/ nc' = [nc EXCEPT !.pc = "done", !.res = "err_cast", !.mp = "dropped",
                             !.err = CastError, !.cause = CastError]
    /\ UNCHANGED <<pool, held, freed, nalloc, regLog, irq>>

\* lines 53-60: map the descriptor array and cast it to a slice of n
\* descriptors; either step may fail and the error is returned
RxMap(addrs) ==
    /\ Running
    /\ nc.pc = "rx_map"
    /\ \/ \E P \in addrs :
            nc' = [nc EXCEPT !.mp = "held", !.base = P,
                             !.descs = [k \in 1..nc.n |-> UninitDesc],
                             !.pc = IF nc.n = 0 THEN "rx_regs" ELSE "rx_pop"]
       \/ (\E e \in MapErrors : nc' = [nc EXCEPT !.pc = "done", !.res = "err_map",
                                                  !.err = e, !.cause = e])
       \/ nc' = [nc EXCEPT !.pc = "done", !.res = "err_cast", !.mp = "dropped",
                             !.err = CastError, !.cause = CastError]
    /\ UNCHANGED <<pool, held, freed, nalloc, regLog, irq>>

\* RxPop that reads the oldest buffer and leaves it in the queue
RxPopPeek ==
    /\ Running
    /\ nc.pc = "rx_pop"
    /\ nc' = IF pool[nc.p] # <<>>
             THEN [nc EXCEPT !.pc = "rx_attach", !.cur = Head(pool[nc.p])]
             ELSE [nc EXCEPT !.pc = "rx_alloc"]
    /\ UNCHANGED <<pool, held, freed, nalloc, regLog, irq>>

\* RxPop that never asks the pool and always falls back to a fresh region
RxPopSkip ==
    /\ Running
    /\ nc.pc = "rx_pop"
    /\ nc' = [nc EXCEPT !.pc = "rx_alloc"]
    /\ UNCHANGED <<pool, held, freed, nalloc, regLog, irq>>

\* RxPop that returns the pool-empty error instead of falling back (`?`
\* applied to the ok_or of line 68)
RxPopEmptyIsError ==
    /\ Running
    /\ nc.pc = "rx_pop"
    /\ LET r == Pop(pool[nc.p]) IN
        /\ pool' = [pool EXCEPT ![nc.p] = r.q]
        /\ nc' = IF r.some
                 THEN [nc EXCEPT !.pc = "rx_attach", !.cur = r.val]
                 ELSE [nc EXCEPT !.pc = "rx_unwind", !.res = "err_empty",
                                 !.err = PoolEmptyMsg]
    /\ UNCHANGED <<held, freed, nalloc, regLog, irq>>

\* RxPop that waits for a buffer: on an empty pool it tries again
RxPopRetry ==
    /\ Running
    /\ nc.pc = "rx_pop"
    /\ LET r == Pop(pool[nc.p]) IN
        /\ pool' = [pool EXCEPT ![nc.p] = r.q]
        /\ nc' = IF r.some
                 THEN [nc EXCEPT !.pc = "rx_attach", !.cur = r.val]
                 ELSE nc
    /\ UNCHANGED <<held, freed, nalloc, regLog, irq>>

\* line 67: rx_buffer_pool.pop()
RxPop ==
    /\ Running
    /\ nc.pc = "rx_pop"
    /\ LET r == Pop(pool[nc.p]) IN
        /\ pool' = [pool EXCEPT ![nc.p] = r.q]
        /\ nc' = IF r.some
                 THEN [nc EXCEPT !.pc = "rx_attach", !.cur = r.val]
                 ELSE [nc EXCEPT !.pc = "rx_alloc"]
    /\ UNCHANGED <<held, freed, nalloc, regLog, irq>>

\* RxAlloc that binds the fresh buffer to one fixed pool
RxAllocFixedPool ==
    /\ Running
    /\ nc.pc = "rx_alloc"
    /\ \/ /\ nalloc < MaxBufs
          /\ nalloc' = nalloc + 1
          /\ nc' = [nc EXCEPT !.pc = "rx_attach",
                              !.cur = NewReceiveBuffer(BufAddr(nalloc + 1), nc.size,
                                                       AsU16(nc.size), "A")]
       \/ /\ (\E e \in MapErrors : nc' = [nc EXCEPT !.pc = "rx_unwind", !.res = "err_alloc",
                                                     !.err = e, !.cause = e])
          /\ UNCHANGED nalloc
    /\ UNCHANGED <<pool, held, freed, regLog, irq>>

\* RxAlloc that reports the pool-empty message of line 68 when the fallback
\* fails (`or` for `or_else`: the first error is kept)
RxAllocPoolEmptyError ==
    /\ Running
    /\ nc.pc = "rx_alloc"
    /\ \/ /\ nalloc < MaxBufs
          /\ nalloc' = nalloc + 1
          /\ nc' = [nc EXCEPT !.pc = "rx_attach",
                              !.cur = NewReceiveBuffer(BufAddr(nalloc + 1), nc.size,
                                                       AsU16(nc.size), nc.p)]
       \/ /\ (\E e \in MapErrors : nc' = [nc EXCEPT !.pc = "rx_unwind", !.res = "err_alloc",
                                                     !.err = PoolEmptyMsg, !.cause = e])
          /\ UNCHANGED nalloc
    /\ UNCHANGED <<pool, held, freed, regLog, irq>>

\* the buffers bound to pool p that exist: idle in it, owned by the driver,
\* or attached by / in the hands of the call in progress
BoundTo(p) ==
    Len(pool[p]) + Cardinality({b \in held : b.pool = p})
        + Cardinality({k \in 1..Len(nc.bufs) : nc.bufs[k].pool = p})
        + (IF nc.cur.pool = p THEN 1 ELSE 0)

\* RxAlloc that maps a fresh buffer only while the buffers bound to the pool
\* are fewer than its capacity, and reports the pool-full error otherwise
RxAllocBounded ==
    /\ Running
    /\ nc.pc = "rx_alloc"
    /\ \/ /\ nalloc < MaxBufs
          /\ BoundTo(nc.p) < PoolCap
          /\ nalloc' = nalloc + 1
          /\ nc' = [nc EXCEPT !.pc = "rx_attach",
                              !.cur = NewReceiveBuffer(BufAddr(nalloc + 1), nc.size,
                                                       AsU16(nc.size), nc.p)]
       \/ /\ BoundTo(nc.p) >= PoolCap
          /\ nc' = [nc EXCEPT !.pc = "rx_unwind", !.res = "err_full", !.err = PoolFullMsg]
          /\ UNCHANGED nalloc
       \/ /\ (\E e \in MapErrors : nc' = [nc EXCEPT !.pc = "rx_unwind", !.res = "err_alloc",
                                                     !.err = e, !.cause = e])
          /\ UNCHANGED nalloc
    /\ UNCHANGED <<pool, held, freed, regLog, irq>>

\* lines 69-74: the pool was empty: map a fresh region of buffer_size bytes
\* and wrap it with length `buffer_size as u16`, or propagate the error
RxAlloc ==
    /\ Running
    /\ nc.pc = "rx_alloc"
    /\ \/ /\ nalloc < MaxBufs
          /\ nalloc' = nalloc + 1
          /\ nc' = [nc EXCEPT !.pc = "rx_attach",
                              !.cur = NewReceiveBuffer(BufAddr(nalloc + 1), nc.size,
                                                       AsU16(nc.size), nc.p)]
       \/ /\ (\E e \in MapErrors : nc' = [nc EXCEPT !.pc = "rx_unwind", !.res = "err_alloc",
                                                     !.err = e, !.cause = e])
          /\ UNCHANGED nalloc
    /\ UNCHANGED <<pool, held, freed, regLog, irq>>

\* RxAttach that always initializes the first descriptor of the array
RxAttachFirstSlot ==
    /\ Running
    /\ nc.pc = "rx_attach"
    /\ nc' = [nc EXCEPT !.bufs = Append(@, nc.cur),
                        !.descs[1] = RxDescInit(nc.cur.paddr),
                        !.cur = NoBuf,
                        !.i = @ + 1,
                        !.pc = IF nc.i + 1 = nc.n THEN "rx_regs" ELSE "rx_pop"]
    /\ UNCHANGED <<pool, held, freed, nalloc, regLog, irq>>

\* lines 75-79: record the buffer in rx_bufs_in_use and init the descriptor
\* with its physical address
RxAttach ==
    /\ Running
    /\ nc.pc = "rx_attach"
    /\ nc' = [nc EXCEPT !.bufs = Append(@, nc.cur),
                        !.descs[nc.i + 1] = RxDescInit(nc.cur.paddr),
                        !.cur = NoBuf,
                        !.i = @ + 1,
                        !.pc = IF nc.i + 1 = nc.n THEN "rx_regs" ELSE "rx_pop"]
    /\ UNCHANGED <<pool, held, freed, nalloc, regLog, irq>>

\* RegWrites that sets the tail before the head
RegWritesTailFirst(pre, base, bytes) ==
    << <<pre \o "bal", AsU32(base)>>,
       <<pre \o "bah", AsU32(Shr32(base))>>,
       <<pre \o "len", AsU32(bytes)>>,
       <<pre \o "t", Zero32>>,
       <<pre \o "h", Zero32>> >>

\* the five setter calls of lines 83-95 (and 123-135), in program order
RegWrites(pre, base, bytes) ==
    << <<pre \o "bal", AsU32(base)>>,
       <<pre \o "bah", AsU32(Shr32(base))>>,
       <<pre \o "len", AsU32(bytes)>>,
       <<pre \o "h", Zero32>>,
       <<pre \o "t", Zero32>> >>

\* RxRegs that programs an address 64 bytes into the mapped region
RxRegsUnaligned ==
    /\ Running
    /\ nc.pc = "rx_regs"
    /\ regLog' = regLog \o RegWrites("rd", [nc.base EXCEPT ![1] = @ + 64],
                                     MulUsize(nc.n, nc.r))
    /\ nc' = [nc EXCEPT !.pc = "done", !.res = "ok", !.mp = "returned"]
    /\ UNCHANGED <<pool, held, freed, nalloc, irq>>

\* lines 83-97: program the registers and return the ring
RxRegs ==
    /\ Running
    /\ nc.pc = "rx_regs"
    /\ regLog' = regLog \o RegWrites("rd", nc.base, MulUsize(nc.n, nc.r))
    /\ nc' = [nc EXCEPT !.pc = "done", !.res = "ok", !.mp = "returned"]
    /\ UNCHANGED <<pool, held, freed, nalloc, irq>>

\* RxUnwind that forgets the vector instead of dropping its buffers
RxUnwindForget ==
    /\ Running
    /\ nc.pc = "rx_unwind"
    /\ nc' = [nc EXCEPT !.pc = "done", !.descs = <<>>, !.bufs = <<>>, !.mp = "dropped"]
    /\ UNCHANGED <<pool, held, freed, nalloc, regLog, irq>>

\* the error return of line 74 drops rx_bufs_in_use: its buffers are dropped
\* front to back
RxUnwind ==
    /\ Running
    /\ nc.pc = "rx_unwind"
    /\ IF nc.bufs = <<>>
       THEN /\ nc' = [nc EXCEPT !.pc = "done", !.descs = <<>>, !.mp = "dropped"]
            /\ UNCHANGED <<pool, freed>>
       ELSE LET d == DropBuffer(Head(nc.bufs), pool, freed) IN
            /\ pool' = d.pool
            /\ freed' = d.freed
            /\ nc' = [nc EXCEPT !.bufs = Tail(@)]
    /\ UNCHANGED <<held, nalloc, regLog, irq>>

(***************************************************************************)
(* init_tx_queue                                                           *)
(***************************************************************************)
\* the call: init_tx_queue::<T, S>(n, regs) with size_of::<T>() = r
TxCall(n, r) ==
    /\ Running
    /\ nc.pc = "idle"
    /\ nc' = [Idle EXCEPT !.pc = "tx_map", !.op = "tx", !.n = n, !.r = r]
    /\ regLog' = <<>>
    /\ UNCHANGED <<pool, held, freed, nalloc, irq>>

\* lines 108-115: map the descriptor array and cast it
TxMap(addrs) ==
    /\ Running
    /\ nc.pc = "tx_map"
    /\ \/ \E P \in addrs :
            nc' = [nc EXCEPT !.mp = "held", !.base = P,
                             !.descs = [k \in 1..nc.n |-> UninitDesc],
                             !.pc = "tx_init"]
       \/ (\E e \in MapErrors : nc' = [nc EXCEPT !.pc = "done", !.res = "err_map",
                                                  !.err = e, !.cause = e])
       \/ nc' = [nc EXCEPT !.pc = "done", !.res = "err_cast", !.mp = "dropped",
                             !.err = CastError, !.cause = CastError]
    /\ UNCHANGED <<pool, held, freed, nalloc, regLog, irq>>

\* TxInit that takes a buffer from a pool for the first descriptor, as the
\* receive side does
TxInitWithBuffer ==
    /\ Running
    /\ nc.pc = "tx_init"
    /\ LET r == Pop(pool["A"]) IN
        /\ pool' = [pool EXCEPT !["A"] = r.q]
        /\ nc' = [nc EXCEPT !.descs = [k \in 1..nc.n |->
                                         IF k = 1 /\ r.some THEN RxDescInit(r.val.paddr)
                                                            ELSE TxDescInit],
                            !.bufs = IF r.some THEN <<r.val>> ELSE <<>>,
                            !.i = nc.n,
                            !.pc = "tx_regs"]
    /\ UNCHANGED <<held, freed, nalloc, regLog, irq>>

\* lines 118-120: td.init() on every descriptor
TxInit ==
    /\ Running
    /\ nc.pc = "tx_init"
    /\ nc' = [nc EXCEPT !.descs = [k \in 1..nc.n |-> TxDescInit],
                        !.i = nc.n,
                        !.pc = "tx_regs"]
    /\ UNCHANGED <<pool, held, freed, nalloc, regLog, irq>>

\* lines 123-137: program the registers and return the ring
TxRegs ==
    /\ Running
    /\ nc.pc = "tx_regs"
    /\ regLog' = regLog \o RegWrites("td", nc.base, MulUsize(nc.n, nc.r))
    /\ nc' = [nc EXCEPT !.pc = "done", !.res = "ok", !.mp = "returned"]
    /\ UNCHANGED <<pool, held, freed, nalloc, irq>>

(***************************************************************************)
(* Return to the driver: an attached buffer set becomes the driver's.      *)
(***************************************************************************)
Return ==
    /\ Running
    /\ nc.pc = "done"
    /\ held' = held \cup (IF nc.res = "ok" THEN {nc.bufs[k] : k \in 1..Len(nc.bufs)} ELSE {})
    /\ nc' = Idle
    /\ regLog' = <<>>
    /\ UNCHANGED <<pool, freed, nalloc, irq>>

(***************************************************************************)
(* The interrupt context: acquire and release on the pools.                *)
(***************************************************************************)
\* the handler is entered: it preempts the normal context wherever it is
IrqAcquire(p) ==
    /\ irq.pc = "idle"
    /\ irq' = [NoIrq EXCEPT !.pc = "running", !.op = "acquire", !.p = p]
    /\ UNCHANGED <<pool, held, freed, nalloc, nc, regLog>>

IrqRelease(b) ==
    /\ irq.pc = "idle"
    /\ b \in held
    /\ irq' = [NoIrq EXCEPT !.pc = "running", !.op = "release", !.p = b.pool, !.buf = b]
    /\ UNCHANGED <<pool, held, freed, nalloc, nc, regLog>>

\* a pool operation of another context during a call on pool p invalidates
\* the call's snapshot of the pool
Touch(p) == IF nc.pc # "idle" /\ nc.p = p
            THEN [nc EXCEPT !.touched = TRUE, !.pool0 = <<>>] ELSE nc

\* the handler's queue operation: acquire() is pop(), release(b) is push(b)
IrqRun ==
    /\ irq.pc = "running"
    /\ PoolAvailable(irq.p)
    /\ IF irq.op = "acquire"
       THEN LET r == Pop(pool[irq.p]) IN
            /\ pool' = [pool EXCEPT ![irq.p] = r.q]
            /\ held' = IF r.some THEN held \cup {r.val} ELSE held
            /\ irq' = [irq EXCEPT !.pc = "ret", !.ok = r.some, !.ret = r.val]
       ELSE LET r == Push(pool[irq.p], irq.buf) IN
            /\ pool' = [pool EXCEPT ![irq.p] = r.q]
            /\ held' = IF r.ok THEN held \ {irq.buf} ELSE held
            /\ irq' = [irq EXCEPT !.pc = "ret", !.ok = r.ok, !.ret = r.ret]
    /\ nc' = Touch(irq.p)
    /\ UNCHANGED <<freed, nalloc, regLog>>

\* the handler returns and the preempted context resumes
IrqReturn ==
    /\ irq.pc = "ret"
    /\ irq' = NoIrq
    /\ UNCHANGED <<pool, held, freed, nalloc, nc, regLog>>

Next ==
    \/ \E num \in 0..MaxFill, size \in FillSizes, p \in Pools : FillCall(num, size, p) /\ UNCHANGED <<pvars, svars>>
    \/ FillAlloc /\ UNCHANGED <<pvars, svars>>
    \/ FillPush /\ UNCHANGED <<pvars, svars>>
    \/ FillDrop /\ UNCHANGED <<pvars, svars>>
    \/ \E n \in 0..MaxDesc, p \in Pools, size \in RxSizes, r \in DescSizes : RxCall(n, p, size, r) /\ UNCHANGED <<pvars, svars>>
    \/ RxMap(DescAddrs) /\ UNCHANGED <<pvars, svars>>
    \/ RxPop /\ UNCHANGED <<pvars, svars>>
    \/ RxAlloc /\ UNCHANGED <<pvars, svars>>
    \/ RxAttach /\ UNCHANGED <<pvars, svars>>
    \/ RxRegs /\ UNCHANGED <<pvars, svars>>
    \/ RxUnwind /\ UNCHANGED <<pvars, svars>>
    \/ \E n \in 0..MaxDesc, r \in DescSizes : TxCall(n, r) /\ UNCHANGED <<pvars, svars>>
    \/ TxMap(DescAddrs) /\ UNCHANGED <<pvars, svars>>
    \/ TxInit /\ UNCHANGED <<pvars, svars>>
    \/ TxRegs /\ UNCHANGED <<pvars, svars>>
    \/ Return /\ UNCHANGED <<pvars, svars>>
    \/ \E p \in Pools : IrqAcquire(p) /\ UNCHANGED <<pvars, svars>>
    \/ \E b \in held : IrqRelease(b) /\ UNCHANGED <<pvars, svars>>
    \/ IrqRun /\ UNCHANGED <<pvars, svars>>
    \/ IrqReturn /\ UNCHANGED <<pvars, svars>>

Spec == Init /\ [][Next]_allvars

\* the same driver alone (no interrupt), over the wide numeric inputs
NextWide ==
    \/ \E num \in 0..MaxFill, size \in FillSizes : FillCall(num, size, "A") /\ UNCHANGED <<pvars, svars>>
    \/ FillAlloc /\ UNCHANGED <<pvars, svars>>
    \/ FillPush /\ UNCHANGED <<pvars, svars>>
    \/ FillDrop /\ UNCHANGED <<pvars, svars>>
    \/ \E n \in 0..MaxDesc, size \in RxSizesWide, r \in DescSizesWide : RxCall(n, "A", size, r) /\ UNCHANGED <<pvars, svars>>
    \/ RxMap(DescAddrsWide) /\ UNCHANGED <<pvars, svars>>
    \/ RxPop /\ UNCHANGED <<pvars, svars>>
    \/ RxAlloc /\ UNCHANGED <<pvars, svars>>
    \/ RxAttach /\ UNCHANGED <<pvars, svars>>
    \/ RxRegs /\ UNCHANGED <<pvars, svars>>
    \/ RxUnwind /\ UNCHANGED <<pvars, svars>>
    \/ \E n \in 0..MaxDesc, r \in DescSizesWide : TxCall(n, r) /\ UNCHANGED <<pvars, svars>>
    \/ TxMap(DescAddrsWide) /\ UNCHANGED <<pvars, svars>>
    \/ TxInit /\ UNCHANGED <<pvars, svars>>
    \/ TxRegs /\ UNCHANGED <<pvars, svars>>
    \/ Return /\ UNCHANGED <<pvars, svars>>

SpecWide == Init /\ [][NextWide]_allvars

(***************************************************************************)
(* Properties.                                                             *)
(***************************************************************************)
RxDoneOk == nc.pc = "done" /\ nc.op = "rx" /\ nc.res = "ok"
TxDoneOk == nc.pc = "done" /\ nc.op = "tx" /\ nc.res = "ok"
Failed == nc.res \in {"err_map", "err_cast", "err_alloc", "err_full"}

\* a release performed by this step, by either context: the pool, the
\* buffer and whether the buffer was handed back
IrqReleases == irq.pc = "running" /\ irq.op = "release" /\ irq'.pc = "ret"
FillReleases == nc.pc = "fill_push" /\ nc'.pc # "fill_push"

\* C1: whatever acquires and releases are interleaved, every pool holds
\* between 0 and PoolCap idle buffers; a release on a pool that already holds
\* PoolCap buffers fails, hands the same buffer back to its caller and leaves
\* every pool as it was.
C1_PoolWithinCapacity ==
    /\ [](\A p \in Pools : Len(pool[p]) >= 0 /\ Len(pool[p]) <= PoolCap)
    /\ [][/\ (IrqReleases /\ Len(pool[irq.p]) = PoolCap) =>
                (pool' = pool /\ ~irq'.ok /\ irq'.ret = irq.buf /\ irq.buf \in held')
          /\ (FillReleases /\ Len(pool[nc.p]) = PoolCap) =>
                (pool' = pool /\ nc'.pc = "fill_drop" /\ nc'.cur = nc.cur)]_vars

\* a release of the interrupt context has just failed on a full pool
C1_Witness ==
    /\ irq.pc = "ret" /\ irq.op = "release" /\ ~irq.ok
    /\ Len(pool[irq.p]) = PoolCap
    /\ irq.ret = irq.buf /\ irq.buf \in held

\* C2: when init_rx_queue(n, ...) returns Ok, rx_bufs_in_use has exactly n
\* entries and descriptor i was initialized with the physical address of
\* entry i.
C2_OneToOneAttachment ==
    RxDoneOk =>
        /\ Len(nc.bufs) = nc.n
        /\ Len(nc.descs) = nc.n
        /\ \A k \in 1..nc.n : nc.descs[k].init /\ nc.descs[k].addr = nc.bufs[k].paddr

C2_Witness == RxDoneOk /\ nc.n = MaxDesc /\ nc.n >= 2

\* C3: when init_rx_queue returns Ok, the attached buffers have pairwise
\* distinct physical addresses, pooled and fresh ones alike, and none of them
\* is idle in a pool.
C3_ExclusiveBuffers ==
    RxDoneOk =>
        /\ \A j, k \in 1..Len(nc.bufs) : j # k => nc.bufs[j].paddr # nc.bufs[k].paddr
        /\ \A k \in 1..Len(nc.bufs) : \A p \in Pools : \A m \in 1..Len(pool[p]) :
               pool[p][m].paddr # nc.bufs[k].paddr

\* a ring attached to one pooled and one fresh buffer
C3_Witness ==
    /\ RxDoneOk /\ nc.n >= 2
    /\ \E j, k \in 1..Len(nc.bufs) :
          nc.bufs[j].paddr <= BufAddr(nc.nalloc0) /\ nc.bufs[k].paddr > BufAddr(nc.nalloc0)

\* C4: a register setter is called only once every descriptor of the call
\* has been initialized, and a call that fails (mapping, cast or buffer
\* allocation at any slot) has called no setter.
C4_RegistersLast ==
    /\ regLog # <<>> =>
          /\ nc.op \in {"rx", "tx"}
          /\ Len(nc.descs) = nc.n
          /\ \A k \in 1..nc.n : nc.descs[k].init
    /\ Failed => regLog = <<>>

\* init_rx_queue failed at a slot after it had attached a buffer
C4_Witness == nc.op = "rx" /\ nc.pc = "done" /\ nc.res = "err_alloc" /\ nc.i >= 1

\* n * r as a natural number of five limbs (no wrap below 2^80)
Product(n, x) ==
    LET c1 == n * x[1]
        c2 == n * x[2] + (c1 \div Limb)
        c3 == n * x[3] + (c2 \div Limb)
        c4 == n * x[4] + (c3 \div Limb)
    IN  <<c1 % Limb, c2 % Limb, c3 % Limb, c4 % Limb, c4 \div Limb>>

RegValue(k) == regLog[k][2]

\* C5: after a successful initialization of a ring of n descriptors of r
\* bytes at physical address P, the setters observed base-low = P mod 2^32,
\* base-high = P div 2^32, length = n * r, head = 0 and tail = 0.
C5_RegisterValues ==
    (RxDoneOk \/ TxDoneOk) =>
        /\ Len(regLog) = 5
        /\ <<RegValue(1)[1], RegValue(1)[2], RegValue(2)[1], RegValue(2)[2]>> = nc.base
        /\ <<RegValue(3)[1], RegValue(3)[2], 0, 0, 0>> = Product(nc.n, nc.r)
        /\ RegValue(4) = <<0, 0>>
        /\ RegValue(5) = <<0, 0>>

\* the buffers of the call in progress that init_rx_queue mapped itself
FreshSlots == {k \in 1..Len(nc.bufs) : nc.bufs[k].paddr > BufAddr(nc.nalloc0)}

\* C6: when no other context touches the pool during init_rx_queue(n, ...),
\* the first min(n, idle) slots carry the buffers the pool held, oldest
\* first, the remaining slots carry fresh buffers, the pool is left with the
\* buffers that were not taken, and no region is mapped when the pool held n
\* or more.
C6_PoolFirstInOrder ==
    (RxDoneOk /\ ~nc.touched) =>
        LET k == IF nc.n <= Len(nc.pool0) THEN nc.n ELSE Len(nc.pool0) IN
        /\ \A j \in 1..k : nc.bufs[j] = nc.pool0[j] /\ nc.descs[j].addr = nc.pool0[j].paddr
        /\ FreshSlots = (k + 1)..nc.n
        /\ pool[nc.p] = SubSeq(nc.pool0, k + 1, Len(nc.pool0))
        /\ Len(pool[nc.p]) = Len(nc.pool0) - k
        /\ (Len(nc.pool0) >= nc.n => nalloc = nc.nalloc0)

\* a full pool of at least two buffers drained to empty by one call
C6_Witness ==
    /\ RxDoneOk /\ ~nc.touched
    /\ nc.n >= 2 /\ Len(nc.pool0) = nc.n /\ pool[nc.p] = <<>>
    /\ nc.bufs = nc.pool0

\* C7: a buffer that init_rx_queue maps because the pool was empty has a
\* region of buffer_size bytes and records the length buffer_size.
C7_FreshBufferSize ==
    RxDoneOk =>
        \A k \in FreshSlots : nc.bufs[k].size = nc.size /\ nc.bufs[k].length = nc.size

C10_BoundToOriginPool ==
    /\ \A p \in Pools : \A k \in 1..Len(pool[p]) : pool[p][k].pool = p
    /\ nc.op \in {"fill", "rx"} =>
          /\ nc.cur # NoBuf => nc.cur.pool = nc.p
          /\ \A k \in 1..Len(nc.bufs) : nc.bufs[k].pool = nc.p
    /\ \A b \in held \cup freed : b.pool \in Pools

\* init_rx_queue on pool B holds a buffer it mapped itself, bound to B, while
\* the interrupt context has just released a buffer of pool A into A
C10_Witness ==
    /\ nc.op = "rx" /\ nc.p = "B" /\ nc.pc = "rx_attach"
    /\ nc.cur.paddr > BufAddr(nc.nalloc0) /\ nc.cur.pool = "B"
    /\ irq.pc = "ret" /\ irq.op = "release" /\ irq.ok /\ irq.p = "A"
    /\ irq.buf.pool = "A" /\ pool["A"] # <<>>

(***************************************************************************)
(* init_rx_buf_pool: outcome of a call                                     *)
(***************************************************************************)
FillDone == nc.pc = "done" /\ nc.op = "fill"

\* the buffers init_rx_buf_pool has mapped so far in this call, in order
FillNew(k) == [j \in 1..k |-> NewReceiveBuffer(BufAddr(nc.nalloc0 + j), nc.size, nc.size, nc.p)]

\* C11: a call of init_rx_buf_pool(count, size, pool) on a pool that had room
\* for count more buffers, whose allocations all succeeded and whose pool no
\* other context touched meanwhile, returns Ok and leaves the pool holding its
\* former content followed by exactly count new buffers, each of region size
\* and length `size` and bound to that pool
C11_FillSucceeds ==
    (FillDone /\ ~nc.touched /\ nc.res # "err_alloc"
              /\ Len(nc.pool0) + nc.n <= PoolCap)
        => /\ nc.res = "ok"
           /\ nc.i = nc.n
           /\ Len(pool[nc.p]) = Len(nc.pool0) + nc.n
           /\ pool[nc.p] = nc.pool0 \o FillNew(nc.n)
           /\ \A k \in Len(nc.pool0) + 1 .. Len(pool[nc.p]) :
                 /\ pool[nc.p][k].size = nc.size
                 /\ pool[nc.p][k].length = nc.size
                 /\ pool[nc.p][k].pool = nc.p
                 /\ pool[nc.p][k] \notin held

C11_Witness ==
    /\ FillDone /\ ~nc.touched /\ nc.res = "ok"
    /\ nc.n = MaxFill /\ nc.n >= 2
    /\ Len(pool[nc.p]) = Len(nc.pool0) + nc.n

\* C12: a failing init_rx_buf_pool stops at the first failure and keeps what
\* it inserted (pool untouched by other contexts): when the allocation of
\* buffer k fails the result is the allocation error, exactly the k buffers
\* before it were added and nothing more was mapped; when the pool fills up
\* before count insertions the result is the pool-full error, the pool is
\* full, and exactly one buffer (the refused one) was mapped beyond those
\* inserted; the inserted buffers are in the pool and not in use
C12_FillAbortsAtFirstFailure ==
    (FillDone /\ ~nc.touched)
        => /\ (nc.res = "err_alloc")
                 => /\ nc.i < nc.n
                    /\ pool[nc.p] = nc.pool0 \o FillNew(nc.i)
                    /\ nalloc = nc.nalloc0 + nc.i
           /\ (nc.res # "err_alloc" /\ Len(nc.pool0) + nc.n > PoolCap)
                 => nc.res = "err_full"
           /\ (nc.res = "err_full")
                 => /\ Len(pool[nc.p]) = PoolCap
                    /\ nc.i = PoolCap - Len(nc.pool0)
                    /\ nc.i < nc.n
                    /\ pool[nc.p] = nc.pool0 \o FillNew(nc.i)
                    /\ nalloc = nc.nalloc0 + nc.i + 1
           /\ \A k \in 1..Len(pool[nc.p]) : pool[nc.p][k] \notin held

C12_Witness ==
    /\ FillDone /\ ~nc.touched /\ nc.res = "err_full"
    /\ nc.i >= 1
    /\ Len(pool[nc.p]) = PoolCap

(***************************************************************************)
(* acquire()                                                               *)
(***************************************************************************)
\* the steps in which a context pops from a pool
IrqAcquires == irq.pc = "running" /\ irq.op = "acquire" /\ irq'.pc = "ret"
RxPops == nc.pc = "rx_pop" /\ nc'.pc # "rx_pop"

\* queue q without its k-th element
Without(q, k) == SubSeq(q, 1, k - 1) \o SubSeq(q, k + 1, Len(q))

\* the pop took exactly buffer b out of pool p and left every other pool and
\* every other buffer as it was
TookOne(p, b) ==
    /\ \E k \in 1..Len(pool[p]) : b = pool[p][k] /\ pool'[p] = Without(pool[p], k)
    /\ \A o \in Pools \ {p} : pool'[o] = pool[o]

\* C13: acquire() on a non-empty pool removes exactly one idle buffer and
\* returns it, leaving the others as they were; on an empty pool it returns
\* nothing, which is not an error, and the pool is unchanged. Both for the
\* pop of init_rx_queue (which then turns to a fresh region) and for the pop
\* of another context
C13_AcquireTakesOneOrNothing ==
    [][ /\ IrqAcquires
            => IF pool[irq.p] # <<>>
               THEN /\ irq'.ok
                    /\ TookOne(irq.p, irq'.ret)
                    /\ irq'.ret \notin held
                    /\ held' = held \cup {irq'.ret}
               ELSE /\ ~irq'.ok
                    /\ irq'.ret = NoBuf
                    /\ pool' = pool
                    /\ held' = held
        /\ RxPops
            => IF pool[nc.p] # <<>>
               THEN /\ nc'.pc = "rx_attach"
                    /\ TookOne(nc.p, nc'.cur)
                    /\ nc'.res = "none"
               ELSE /\ nc'.pc = "rx_alloc"
                    /\ nc'.res = "none"
                    /\ nc'.cur = NoBuf
                    /\ pool' = pool
      ]_vars

C13_Witness ==
    /\ nc.pc = "rx_alloc"
    /\ irq.pc = "ret" /\ irq.op = "acquire" /\ irq.ok
    /\ irq.ret \in held
    /\ pool[irq.p] # <<>>

(***************************************************************************)
(* Rings of zero descriptors                                               *)
(***************************************************************************)
\* a step of the normal context inside a ring initialization
RingStep == nc.op \in {"rx", "tx"} /\ nc' # nc /\ irq' = irq

TxStep == (nc.op = "tx" \/ nc'.op = "tx") /\ nc' # nc /\ irq' = irq

\* C15: init_tx_queue(n, regs) initializes every one of its n descriptors
\* (td.init(): no buffer address), attaches no buffer, and none of its steps
\* changes a pool, the buffers in use, or the number of mapped buffers: no
\* acquire, no release, no buffer allocation
C15_TransmitLeavesPoolsAlone ==
    /\ [](TxDoneOk
            => /\ Len(nc.descs) = nc.n
               /\ \A k \in 1..nc.n : nc.descs[k].init /\ nc.descs[k].addr = 0)
    /\ [](nc.op = "tx" => nc.bufs = <<>> /\ nc.cur = NoBuf)
    /\ [][TxStep => UNCHANGED <<pool, held, freed, nalloc>>]_vars

C15_Witness ==
    /\ TxDoneOk /\ nc.n = MaxDesc /\ nc.n >= 2
    /\ \A k \in 1..nc.n : nc.descs[k] = TxDescInit
    /\ pool["A"] # <<>> /\ held # {}

(***************************************************************************)
(* Register accesses                                                       *)
(***************************************************************************)
\* the register accesses of the current call, by name, in order
RegNames == [k \in 1..Len(regLog) |-> regLog[k][1]]

\* C16: the only register accesses of a ring initialization are setter
\* calls: a successful call has made exactly the five calls base-low,
\* base-high, length, head, tail, each once and in that order, all of them in
\* its last step; once its last statement has run, nothing writes the
\* registers, the descriptor array or the buffer vector any more until the
\* result is handed to the driver
C16_FiveWritesInOrder ==
    /\ [](RxDoneOk => RegNames = <<"rdbal", "rdbah", "rdlen", "rdh", "rdt">>)
    /\ [](TxDoneOk => RegNames = <<"tdbal", "tdbah", "tdlen", "tdh", "tdt">>)
    /\ [][regLog' # regLog
            => \/ regLog = <<>> /\ nc.pc \in {"rx_regs", "tx_regs"}
                                /\ nc'.pc = "done" /\ Len(regLog') = 5
               \/ regLog' = <<>> /\ nc.pc = "done" /\ nc'.pc = "idle"]_vars
    /\ [][(nc.pc = "done" /\ nc'.pc = "done")
            => /\ regLog' = regLog
               /\ nc'.descs = nc.descs
               /\ nc'.bufs = nc.bufs]_vars

C16_Witness ==
    /\ TxDoneOk /\ nc.n >= 1
    /\ RegNames = <<"tdbal", "tdbah", "tdlen", "tdh", "tdt">>
    /\ irq.pc = "ret"

(***************************************************************************)
(* Failure of the cast to a descriptor slice                               *)
(***************************************************************************)
CastFailed == nc.pc = "done" /\ nc.res = "err_cast"

\* C17: when the mapped region cannot host num_desc descriptors the call
\* fails cleanly: no descriptor is initialized, no buffer is popped or
\* mapped, no register is written, and the mapped region goes back to the
\* caller together with the error
C17_RegionReturnedToCaller ==
    CastFailed
        => /\ nc.descs = <<>> /\ nc.bufs = <<>> /\ nc.cur = NoBuf /\ nc.i = 0
           /\ regLog = <<>>
           /\ (nc.op = "rx") => /\ nalloc = nc.nalloc0
                                /\ ~nc.touched => pool[nc.p] = nc.pool0
           /\ nc.err = CastError
           /\ nc.mp = "returned"

(***************************************************************************)
(* Failure of a mapping                                                    *)
(***************************************************************************)
MapFailed == nc.op \in {"rx", "tx"} /\ nc.res \in {"err_map", "err_alloc"}

\* C18: when mapping the descriptor array fails, or the pool is empty at a
\* slot and mapping the fresh buffer fails, the call returns exactly the
\* error value the failed mapping produced (not the pool-empty message, not
\* another value), writes no register, and handles no further slot: from
\* the failure on it pops nothing, maps nothing and attaches nothing
C18_MappingErrorUnchanged ==
    /\ [](MapFailed
            => /\ nc.err = nc.cause
               /\ nc.err \in MapErrors
               /\ nc.err # PoolEmptyMsg
               /\ nc.pc \in {"rx_unwind", "done"}
               /\ regLog = <<>>)
    /\ [][(MapFailed /\ RingStep)
            => /\ nalloc' = nalloc
               /\ held' = held
               /\ \A p \in Pools : Len(pool'[p]) >= Len(pool[p])
               /\ nc'.pc # "idle" => /\ nc'.i = nc.i
                                     /\ nc'.err = nc.err
                                     /\ nc'.res = nc.res]_vars

C18_Witness ==
    /\ nc.op = "rx" /\ nc.pc = "done" /\ nc.res = "err_alloc"
    /\ nc.i >= 1 /\ nc.i < nc.n
    /\ nc.err = "mapping failed" /\ nc.cause = "mapping failed"

(***************************************************************************)
(* Alignment of the descriptor array                                       *)
(***************************************************************************)
\* the 64-bit value the two base-address setters received together
ProgrammedBase == <<RegValue(1)[1], RegValue(1)[2], RegValue(2)[1], RegValue(2)[2]>>

\* x mod 128 of a 64-bit value: 2^16 is a multiple of 128, so the lowest limb
\* decides
Mod128(x) == x[1] % 128

\* C19: with a mapping collaborator that returns page-aligned physical
\* addresses, the physical base address of the descriptor array of every
\* successful init_rx_queue or init_tx_queue, and the 64-bit value written to
\* the base-address registers, is a multiple of 128
C19_BaseAligned128 ==
    /\ (nc.mp \in {"held", "returned"}) => Mod128(nc.base) = 0
    /\ (RxDoneOk \/ TxDoneOk)
         => /\ ProgrammedBase = nc.base
            /\ Mod128(ProgrammedBase) = 0

C19_Witness ==
    /\ RxDoneOk /\ nc.n >= 1
    /\ nc.base = <<61440, 65535, 65535, 15>>
    /\ ProgrammedBase = nc.base

(***************************************************************************)
(* Termination                                                             *)
(***************************************************************************)
\* a step of the normal context inside a call
NcStep ==
    \/ FillAlloc \/ FillPush \/ FillDrop
    \/ RxMap(DescAddrs) \/ RxPop \/ RxAlloc \/ RxAttach \/ RxRegs \/ RxUnwind
    \/ TxMap(DescAddrs) \/ TxInit \/ TxRegs

\* the processor keeps executing: a running handler runs to its return, and
\* the normal context, which is resumed whenever a handler returns, gets to
\* take steps however often it is interrupted
SpecLive ==
    /\ Init /\ [][Next]_allvars
    /\ SF_vars(NcStep)
    /\ WF_vars(IrqRun)
    /\ WF_vars(IrqReturn)

InCall == nc.pc \notin {"idle", "done"}

\* C20: every call of init_rx_buf_pool, init_rx_queue and init_tx_queue
\* comes to its return, Ok or Err; the normal context can always take its
\* next step when it runs (it waits for nothing); init_rx_queue takes the
\* slots one after the other, each once: a pop is followed by the attachment
\* or by the fallback mapping, never by another pop for the same slot, also
\* when the pool is empty or another context empties it meanwhile
C20_CallsReturn ==
    /\ InCall ~> (nc.pc = "done" /\ nc.res # "none")
    /\ []((InCall /\ Running) => ENABLED NcStep)
    /\ [][(nc.pc = "rx_pop" /\ nc' # nc /\ irq' = irq)
            => nc'.pc \in {"rx_attach", "rx_alloc"} /\ nc'.i = nc.i]_vars
    /\ [][(nc.pc = "rx_alloc" /\ nc' # nc /\ irq' = irq)
            => nc'.pc \in {"rx_attach", "rx_unwind"} /\ nc'.i = nc.i]_vars
    /\ [][(nc.pc = "rx_attach" /\ nc' # nc /\ irq' = irq)
            => nc'.i = nc.i + 1 /\ nc'.pc \in {"rx_pop", "rx_regs"}]_vars
    /\ [](RxDoneOk => nc.i = nc.n /\ Len(nc.bufs) = nc.n)

C20_Witness ==
    /\ RxDoneOk /\ nc.n = MaxDesc /\ nc.n >= 2
    /\ nc.touched
    /\ pool[nc.p] = <<>>
    /\ FreshSlots # {}
    /\ \E k \in 1..Len(nc.bufs) : k \notin FreshSlots

(***************************************************************************)
(* kernel/preemption: hold_preemption, PreemptionGuard::drop and           *)
(* preemption_enabled.                                                     *)
(***************************************************************************)
\* deepest nesting of guards explored with two CPUs, and with one CPU
MaxNest == 3
MaxDeep == 256

\* the live guards that were created on CPU c
Live(c) == guards[c][TRUE] + guards[c][FALSE]

\* lines 161-165: preemption_enabled() called on CPU c
PreemptionEnabled(c) == count[c] = 0

\* AtomicU8::fetch_add(1) and fetch_sub(1) wrap around
WrapInc(v) == (v + 1) % U8
WrapDec(v) == (v + U8 - 1) % U8

\* lines 33-43: fetch_add on the counter of the current CPU, then the guard
\* is built from the previous value
HoldAdd(c, limit) ==
    /\ cpu[c].pc = "run"
    /\ Live(c) < limit
    /\ LET g == [cpu |-> c, was |-> count[c] = 0] IN
        /\ count' = [count EXCEPT ![c] = WrapInc(@)]
        /\ guards' = [guards EXCEPT ![c][g.was] = @ + 1]
        /\ cpu' = [cpu EXCEPT ![c] = [pc |-> "hold", prev |-> count[c], g |-> g]]
    /\ UNCHANGED <<arch, timer>>

\* lines 45-68: disable the LVT timer on the 0 -> 1 transition (x86_64
\* only), panic when the previous value was u8::MAX, else return the guard
HoldFinish(c) ==
    /\ cpu[c].pc = "hold"
    /\ timer' = IF cpu[c].g.was /\ arch = "x86_64"
                THEN [timer EXCEPT ![c] = FALSE] ELSE timer
    /\ cpu' = [cpu EXCEPT ![c] = IF ~cpu[c].g.was /\ cpu[c].prev = U8 - 1
                                 THEN [@ EXCEPT !.pc = "panic"]
                                 ELSE CpuRun]
    /\ UNCHANGED <<arch, count, guards>>

\* the panic of line 65: the build either stops there, or unwinds and drops
\* the guard of line 40, whose fetch_sub finds 0 and panics again (line 150)
HoldPanic(c) ==
    /\ cpu[c].pc = "panic"
    /\ \/ UNCHANGED <<count, guards>>
       \/ /\ count' = [count EXCEPT ![c] = WrapDec(@)]
          /\ guards' = [guards EXCEPT ![c][cpu[c].g.was] = @ - 1]
    /\ cpu' = [cpu EXCEPT ![c].pc = "halt"]
    /\ UNCHANGED <<arch, timer>>

\* lines 121-128: CPU c drops guard g: the assertion on the CPU, then
\* fetch_sub on the counter of the current CPU
DropSub(c, g) ==
    /\ cpu[c].pc = "run"
    /\ guards[g.cpu][g.was] > 0
    /\ guards' = [guards EXCEPT ![g.cpu][g.was] = @ - 1]
    /\ IF g.cpu # c
       THEN /\ cpu' = [cpu EXCEPT ![c] = [pc |-> "halt", prev |-> 0, g |-> g]]
            /\ UNCHANGED count
       ELSE /\ count' = [count EXCEPT ![c] = WrapDec(@)]
            /\ cpu' = [cpu EXCEPT ![c] = [pc |-> "drop", prev |-> count[c], g |-> g]]
    /\ UNCHANGED <<arch, timer>>

\* DropFinish that re-enables the timer when the dropped guard is the one
\* that disabled it (self.preemption_was_enabled for prev_val == 1)
DropFinishByFlag(c) ==
    /\ cpu[c].pc = "drop"
    /\ timer' = IF cpu[c].g.was /\ arch = "x86_64"
                THEN [timer EXCEPT ![c] = TRUE] ELSE timer
    /\ cpu' = [cpu EXCEPT ![c] = IF cpu[c].prev = 0
                                 THEN [@ EXCEPT !.pc = "halt"]
                                 ELSE CpuRun]
    /\ UNCHANGED <<arch, count, guards>>

\* lines 129-151: re-enable the LVT timer on the 1 -> 0 transition (x86_64
\* only), panic when the previous value was 0
DropFinish(c) ==
    /\ cpu[c].pc = "drop"
    /\ timer' = IF cpu[c].prev = 1 /\ arch = "x86_64"
                THEN [timer EXCEPT ![c] = TRUE] ELSE timer
    /\ cpu' = [cpu EXCEPT ![c] = IF cpu[c].prev = 0
                                 THEN [@ EXCEPT !.pc = "halt"]
                                 ELSE CpuRun]
    /\ UNCHANGED <<arch, count, guards>>

GuardKinds == [cpu : CPUs, was : BOOLEAN]

\* two CPUs, guards nested up to MaxNest and dropped in any order, on any CPU
NextPreempt ==
    \/ \E c \in CPUs : HoldAdd(c, MaxNest) /\ UNCHANGED <<vars, svars>>
    \/ \E c \in CPUs : HoldFinish(c) /\ UNCHANGED <<vars, svars>>
    \/ \E c \in CPUs, g \in GuardKinds : DropSub(c, g) /\ UNCHANGED <<vars, svars>>
    \/ \E c \in CPUs : DropFinish(c) /\ UNCHANGED <<vars, svars>>

\* either build of the crate
InitPreempt ==
    /\ pool = [p \in Pools |-> <<>>] /\ held = {} /\ freed = {} /\ nalloc = 0
    /\ nc = Idle /\ regLog = <<>> /\ irq = NoIrq
    /\ arch \in Archs
    /\ PreemptInit
    /\ SerialInit

SpecPreempt == InitPreempt /\ [][NextPreempt]_allvars

\* one CPU, guards nested until the counter overflows
NextPreemptDeep ==
    \/ HoldAdd(0, MaxDeep) /\ UNCHANGED <<vars, svars>>
    \/ HoldFinish(0) /\ UNCHANGED <<vars, svars>>
    \/ HoldPanic(0) /\ UNCHANGED <<vars, svars>>
    \/ \E w \in BOOLEAN : DropSub(0, [cpu |-> 0, was |-> w]) /\ UNCHANGED <<vars, svars>>
    \/ DropFinish(0) /\ UNCHANGED <<vars, svars>>

SpecPreemptDeep == InitPreempt /\ [][NextPreemptDeep]_allvars

\* C21: on every CPU the counter equals the number of live guards created
\* there (as far as an AtomicU8 can count), and preemption_enabled() is true
\* exactly when no guard is live there, also when more than 255 holds are
\* nested: an overflow never makes preemption appear enabled while a guard
\* is held
C21_CounterCountsLiveGuards ==
    \A c \in CPUs :
        /\ Live(c) < U8 => count[c] = Live(c)
        /\ PreemptionEnabled(c) <=> Live(c) = 0

\* the steps of CPU c that create a guard, and that start dropping one
HoldAdds(c) == cpu[c].pc = "run" /\ cpu'[c].pc = "hold"
DropStarts(c) == cpu[c].pc = "run" /\ cpu'[c].pc \in {"drop", "halt"}

\* C22: a guard has preemption_was_enabled = true exactly when its creation
\* moved the counter of its CPU from 0 to 1; the timer of a CPU is disabled
\* only by the hold that made that transition and enabled only by the drop
\* that moved the counter from 1 to 0; while a guard created on a CPU is
\* live, in whatever order guards are dropped, preemption_enabled() is false
\* there and (x86_64, no call in progress) its timer is off; a drop on a CPU
\* other than the guard's panics and changes no counter and no timer
C22_TransitionsOnly ==
    /\ [][\A c \in CPUs :
            HoldAdds(c) => (cpu'[c].g.was <=> (count[c] = 0 /\ count'[c] = 1))]_allvars
    /\ [][\A c \in CPUs :
            (timer'[c] # timer[c])
              => \/ cpu[c].pc = "hold" /\ cpu[c].g.was /\ cpu[c].prev = 0
                                      /\ ~timer'[c]
                 \/ cpu[c].pc = "drop" /\ cpu[c].prev = 1 /\ count[c] = 0
                                      /\ timer'[c]]_allvars
    /\ [](\A c \in CPUs : Live(c) > 0 => ~PreemptionEnabled(c))
    /\ [](\A c \in CPUs :
            (arch = "x86_64" /\ Live(c) > 0 /\ cpu[c].pc = "run") => ~timer[c])
    /\ [][\A c \in CPUs :
            DropStarts(c)
              => IF cpu'[c].g.cpu # c
                 THEN cpu'[c].pc = "halt" /\ count' = count /\ timer' = timer
                 ELSE cpu'[c].pc = "drop" /\ count[c] > 0
                      /\ count' = [count EXCEPT ![c] = @ - 1]]_allvars

C22_Witness ==
    /\ arch = "x86_64"
    /\ cpu[0].pc = "run"
    /\ guards[0][TRUE] = 0 /\ guards[0][FALSE] = 1
    /\ count[0] = 2 /\ ~timer[0]
    /\ cpu[1].pc = "halt" /\ cpu[1].g.cpu = 0 /\ cpu[1].g.was

(***************************************************************************)
(* kernel/serial_port_basic (aarch64): take_serial_port and the drop of a  *)
(* SerialPort.                                                             *)
(***************************************************************************)
\* lines 96-97: lock the static port of the address (the caller spins until
\* the MutexIrqSafe is free)
TakeLock(t, a) ==
    /\ sc[t].pc = "idle"
    /\ lock[a] = 0
    /\ lock' = [lock EXCEPT ![a] = t]
    /\ sc' = [sc EXCEPT ![t] = [pc |-> "take_check", a |-> a, saw |-> FALSE, got |-> "none"]]
    /\ UNCHANGED <<port, inits, handles>>

\* line 98: if let TriState::Uninited = &*locked
TakeCheck(t) ==
    /\ sc[t].pc = "take_check"
    /\ sc' = [sc EXCEPT ![t].pc = "take_init", ![t].saw = (port[sc[t].a] = "Uninited")]
    /\ UNCHANGED <<port, lock, inits, handles>>

\* lines 99-104: *locked = TriState::Inited(SerialPort::new(..))
TakeInit(t) ==
    /\ sc[t].pc = "take_init"
    /\ IF sc[t].saw
       THEN /\ port' = [port EXCEPT ![sc[t].a] = "Inited"]
            /\ inits' = [inits EXCEPT ![sc[t].a] = @ + 1]
       ELSE UNCHANGED <<port, inits>>
    /\ sc' = [sc EXCEPT ![t].pc = "take_take"]
    /\ UNCHANGED <<lock, handles>>

\* TakeTake whose TriState::take hands the port out again while it is Taken
TakeTakeClone(t) ==
    /\ sc[t].pc = "take_take"
    /\ port' = [port EXCEPT ![sc[t].a] = "Taken"]
    /\ handles' = [handles EXCEPT ![t][sc[t].a] = @ + 1]
    /\ sc' = [sc EXCEPT ![t].pc = "idle", ![t].got = "Some"]
    /\ lock' = [lock EXCEPT ![sc[t].a] = 0]
    /\ UNCHANGED inits

\* lines 76-83 and 106-107: locked.take() moves an Inited port out and
\* leaves Taken, and yields None otherwise; the lock guard is dropped
TakeTake(t) ==
    /\ sc[t].pc = "take_take"
    /\ IF port[sc[t].a] = "Inited"
       THEN /\ port' = [port EXCEPT ![sc[t].a] = "Taken"]
            /\ handles' = [handles EXCEPT ![t][sc[t].a] = @ + 1]
            /\ sc' = [sc EXCEPT ![t].pc = "idle", ![t].got = "Some"]
       ELSE /\ UNCHANGED <<port, handles>>
            /\ sc' = [sc EXCEPT ![t].pc = "idle", ![t].got = "None"]
    /\ lock' = [lock EXCEPT ![sc[t].a] = 0]
    /\ UNCHANGED inits

\* lines 133-140: drop of a SerialPort locks the static port of its address
DropLock(t, a) ==
    /\ sc[t].pc = "idle"
    /\ handles[t][a] > 0
    /\ lock[a] = 0
    /\ lock' = [lock EXCEPT ![a] = t]
    /\ sc' = [sc EXCEPT ![t] = [pc |-> "drop_locked", a |-> a, saw |-> FALSE, got |-> "none"]]
    /\ UNCHANGED <<port, inits, handles>>

\* lines 141-146: a Taken static port gets the port back as Inited; the
\* handle is gone and the lock guard is dropped
DropRestore(t) ==
    /\ sc[t].pc = "drop_locked"
    /\ port' = IF port[sc[t].a] = "Taken"
               THEN [port EXCEPT ![sc[t].a] = "Inited"] ELSE port
    /\ handles' = [handles EXCEPT ![t][sc[t].a] = @ - 1]
    /\ lock' = [lock EXCEPT ![sc[t].a] = 0]
    /\ sc' = [sc EXCEPT ![t].pc = "idle", ![t].got = "Dropped"]
    /\ UNCHANGED inits

NextSerial ==
    \/ \E t \in Callers, a \in Addrs : TakeLock(t, a) /\ UNCHANGED <<vars, pvars>>
    \/ \E t \in Callers : TakeCheck(t) /\ UNCHANGED <<vars, pvars>>
    \/ \E t \in Callers : TakeInit(t) /\ UNCHANGED <<vars, pvars>>
    \/ \E t \in Callers : TakeTake(t) /\ UNCHANGED <<vars, pvars>>
    \/ \E t \in Callers, a \in Addrs : DropLock(t, a) /\ UNCHANGED <<vars, pvars>>
    \/ \E t \in Callers : DropRestore(t) /\ UNCHANGED <<vars, pvars>>

SpecSerial == Init /\ [][NextSerial]_allvars

\* the live SerialPort handles of address a
LiveHandles(a) == handles[1][a] + handles[2][a]

\* caller t returns from take_serial_port, and from the drop of a handle
TakeReturns(t) == sc[t].pc = "take_take" /\ sc'[t].pc = "idle"
DropReturns(t) == sc[t].pc = "drop_locked" /\ sc'[t].pc = "idle"

\* C23: for every serial port address at most one SerialPort is live at a
\* time, whatever the callers do concurrently: SerialPort::new runs at most
\* once per address, take_serial_port returns Some exactly when no handle of
\* the address is live and None while one is, and the drop of the live
\* handle puts the port back (Inited), so that the next take returns it
C23_OneHandlePerPort ==
    /\ [](\A a \in Addrs :
            /\ LiveHandles(a) <= 1
            /\ inits[a] <= 1
            /\ (port[a] = "Taken") <=> (LiveHandles(a) = 1)
            /\ (port[a] = "Uninited") <=> (inits[a] = 0))
    /\ [][\A t \in Callers :
            TakeReturns(t)
              => /\ (sc'[t].got = "Some") <=> (LiveHandles(sc[t].a) = 0)
                 /\ (sc'[t].got = "None") <=> (LiveHandles(sc[t].a) = 1)
                 /\ (sc'[t].got = "Some") => handles'[t][sc[t].a] = 1]_allvars
    /\ [][\A t \in Callers :
            DropReturns(t)
              => /\ port'[sc[t].a] = "Inited"
                 /\ LiveHandles(sc[t].a)' = 0]_allvars

C23_Witness ==
    /\ sc[1].pc = "idle" /\ sc[1].a = "COM1" /\ sc[1].got = "Dropped"
    /\ sc[2].pc = "idle" /\ sc[2].a = "COM1" /\ sc[2].got = "Some"
    /\ handles[2]["COM1"] = 1
    /\ inits["COM1"] = 1

(***************************************************************************)
(* Conservation of the receive buffers                                     *)
(***************************************************************************)
\* how often the buffer of physical address a occurs in sequence q, set S
InSeq(q, a) == Cardinality({k \in 1..Len(q) : q[k].paddr = a})
InSet(S, a) == Cardinality({b \in S : b.paddr = a})

\* the number of places the buffer of physical address a is in: idle in a
\* pool, owned by the driver, attached by or in the hands of the call in
\* progress, or destroyed
Places(a) ==
    InSeq(pool["A"], a) + InSeq(pool["B"], a) + InSet(held, a)
        + InSeq(nc.bufs, a) + (IF nc.cur.paddr = a THEN 1 ELSE 0) + InSet(freed, a)

\* the buffer b is in nobody's hands
NobodyHas(b) ==
    /\ b \notin held
    /\ InSeq(nc.bufs, b.paddr) = 0
    /\ nc.cur.paddr # b.paddr

\* C24: in every interleaving of init_rx_buf_pool, init_rx_queue and the
\* acquire / release of another context, every buffer mapped so far is in
\* exactly one place: once in the pool it is bound to, or with exactly one
\* owner; so a pop never returns a buffer somebody holds, and a buffer that
\* was released once is in the pool once
C24_BuffersConserved ==
    /\ [](\A k \in 1..nalloc : Places(BufAddr(k)) = 1)
    /\ [](\A p \in Pools : \A k \in 1..Len(pool[p]) :
            /\ pool[p][k].pool = p
            /\ pool[p][k].paddr \in {BufAddr(j) : j \in 1..nalloc})
    /\ [][(IrqAcquires /\ irq'.ok) => NobodyHas(irq'.ret)]_allvars
    /\ [][(RxPops /\ nc'.pc = "rx_attach") => NobodyHas(nc'.cur)]_allvars
    /\ [][(IrqReleases /\ irq'.ok)
            => /\ InSeq(pool[irq.p], irq.buf.paddr) = 0
               /\ InSeq(pool'[irq.p], irq.buf.paddr) = 1]_allvars

C24_Witness ==
    /\ nalloc = MaxBufs
    /\ nc.pc = "rx_attach" /\ nc.bufs # <<>>
    /\ irq.pc = "ret" /\ irq.op = "acquire" /\ irq.ok
    /\ Cardinality(held) >= 1
    /\ \A k \in 1..nalloc : Places(BufAddr(k)) = 1

(***************************************************************************)
(* The error path of init_rx_queue                                         *)
(***************************************************************************)
RxFailedAtSlot == nc.op = "rx" /\ nc.pc = "done" /\ nc.res = "err_alloc"

\* the buffers of sequence q, as a set
Range(q) == {q[k] : k \in 1..Len(q)}

\* C25: when init_rx_queue fails at slot i after taking the buffers of
\* slots 0..i-1 from the pool, the vector of attached buffers is dropped on
\* the error return and each of its buffers goes back to the pool it is
\* bound to: nothing stays attached, nothing is destroyed, and (no other
\* context having touched the pool) the pool holds the same buffers as
\* before the call
C25_FailureReturnsBuffers ==
    RxFailedAtSlot
        => /\ nc.bufs = <<>> /\ nc.cur = NoBuf
           /\ (~nc.touched /\ nc.i <= Len(nc.pool0))
                 => /\ Range(pool[nc.p]) = Range(nc.pool0)
                    /\ Len(pool[nc.p]) = Len(nc.pool0)
                    /\ nalloc = nc.nalloc0
                    /\ \A b \in Range(nc.pool0) : b \notin held /\ b \notin freed

C25_Witness ==
    /\ RxFailedAtSlot /\ ~nc.touched
    /\ nc.i >= 1 /\ nc.i = Len(nc.pool0)
    /\ Range(pool[nc.p]) = Range(nc.pool0)
    /\ Len(pool[nc.p]) = nc.i

(***************************************************************************)
(* Buffers in circulation and the capacity of the pool                     *)
(***************************************************************************)
\* C26: the fallback of init_rx_queue does not look at the capacity of the
\* pool: the call never fails for want of capacity, so the buffers bound to
\* a pool (idle, owned, attached) may outnumber its capacity; the idle
\* buffers of a pool still never exceed the capacity, and a release that
\* finds the pool full fails and hands the buffer back, the pool and the
\* owner's buffers unchanged
C26_FallbackIgnoresCapacity ==
    /\ [](nc.op = "rx" => nc.res \notin {"err_full", "err_empty"})
    /\ [](\A p \in Pools :
            /\ Len(pool[p]) <= PoolCap
            /\ BoundTo(p) > PoolCap
                 => BoundTo(p) - Len(pool[p]) >= BoundTo(p) - PoolCap)
    /\ [][(IrqReleases /\ Len(pool[irq.p]) = PoolCap)
            => /\ ~irq'.ok
               /\ irq'.ret = irq.buf
               /\ pool' = pool
               /\ held' = held]_allvars

\* the first init_rx_queue call to map a buffer found PoolCap buffers in
\* existence and mapped one more by its fallback; all are bound to its pool,
\* and a release into that pool has just been refused
C26_Witness ==
    /\ nc.op = "rx" /\ nc.pc # "idle"
    /\ nc.nalloc0 = PoolCap /\ nalloc = PoolCap + 1
    /\ BoundTo(nc.p) = PoolCap + 1
    /\ irq.pc = "ret" /\ irq.op = "release" /\ ~irq.ok
    /\ irq.p = nc.p
    /\ irq.ret = irq.buf /\ irq.buf \in held
    /\ Len(pool[irq.p]) = PoolCap

====
